---- MODULE Spec2Model ----
(***************************************************************************)
(* Model of the CPU-side LOD core of the planetary terrain engine:         *)
(*   src/src/engine/TileKey.ts          tile identity and hierarchy        *)
(*   src/src/engine/TileBounds.ts       bounding sphere of a tile          *)
(*   src/src/engine/FrustumPlanes.ts    sphere-vs-frustum test             *)
(*   src/src/engine/QuadtreeManager.ts  refinement traversal and diff      *)
(*                                                                         *)
(* Numbers.  A JavaScript number that holds a tile coordinate is modelled  *)
(* as a sign and the set of positions of the 1 bits of its magnitude, so   *)
(* that values beyond 32 bits exist in the model and `>>` keeps its 32-bit *)
(* width.  face and level are plain integers.                              *)
(***************************************************************************)
EXTENDS Integers, Sequences, FiniteSets, TLC

VARIABLES
    args,        \* arguments of the latest `new TileKey(...)` call, or Unset
    made,        \* what that call produced: a tile or a thrown error
    parent,      \* result of made.getParent(), or Unset
    kids,        \* result of made.getParent().getChildren(), or Unset
    config,      \* QuadtreeManager.config
    activeTiles, \* QuadtreeManager.activeTiles : Map<string, TileKey>
    result,      \* what the latest update call returned, or Unset
    lastCamera,  \* the CameraState of the latest update call, or Unset
    prevCamera,  \* the CameraState of the update call before it, or Unset
    prevTiles,   \* activeTiles as it was when the latest update call began
    prevActive,  \* the `active` returned by the update call before the latest
    traversing,  \* the CameraState of the update call in progress, or Unset
    building,    \* nextTiles of the update call in progress
    pending,     \* tiles on which processTile is called but has not run yet
    reordered,   \* some processTile ran before one of a lower face number
    first,       \* a TileKey under test, or Unset
    second,      \* another TileKey under test, or Unset
    keys,        \* toString() and toNumericKey() of first and second, or Unset
    firstParent, \* result of first.getParent(), or Unset
    firstChildren, \* result of first.getChildren(), or Unset
    childParents,  \* getParent() of each element of firstChildren, or Unset
    anchor,      \* FloatingOrigin.anchor, or Unset before construction
    call,        \* the latest PlanetMath call: its name and arguments, or Unset
    ret,         \* what that call returned, or Unset while it has not
    loop,        \* locals of the ecefToGeodetic call in progress, or Unset
    moves,       \* how many times setAnchor has run
    consumer,    \* the tiles PlanetRenderer.render holds atlas layers for
    pureCall,    \* the latest call of a pure function: name and arguments
    pureRet,     \* what that call returned
    player,      \* FloatingOriginController.player.geodetic, or Unset
    recenterThreshold, \* FloatingOriginController.recenterThreshold
    held,        \* a Geodetic object a caller holds a reference to, or Unset
    aliased,     \* the pairs of references that point to one object
    calls,       \* how many controller and FloatingOrigin calls were made
    downloads,   \* TileFetcher: the downloads started for one cache key
    activeRequests,   \* which download's promise the key maps to, or 0
    abortControllers, \* which download's controller the key maps to, or 0
    imageCache,  \* whether imageCache has the key
    failedRequests,   \* whether failedRequests has the key
    fetched      \* the latest fetchTile or cancelTile call, or Unset

tileVars == <<args, made, parent, kids>>

stepVars == <<traversing, building, pending, reordered>>

keyVars == <<first, second, keys, firstParent, firstChildren, childParents>>

geoVars == <<anchor, call, ret, loop, moves>>

pureVars == <<pureCall, pureRet>>

ctlVars == <<player, recenterThreshold, held, aliased, calls>>

fetchVars == <<downloads, activeRequests, abortControllers, imageCache,
               failedRequests, fetched>>

restVars == <<consumer, pureVars, ctlVars, fetchVars>>

mgrVars == <<config, activeTiles, result, lastCamera, prevCamera, prevTiles,
             prevActive>>

vars == <<args, made, parent, kids, config, activeTiles, result, lastCamera,
          prevCamera, prevTiles, prevActive, traversing, building, pending,
          reordered, first, second, keys, firstParent, firstChildren,
          childParents,
          anchor, call, ret, loop, moves, consumer, pureCall, pureRet,
          player, recenterThreshold, held, aliased, calls,
          downloads, activeRequests, abortControllers, imageCache,
          failedRequests, fetched>>

----------------------------------------------------------------------------
(* JavaScript integer-valued numbers                                       *)

IntBits == 32

Zero == [neg |-> FALSE, mag |-> {}]

BitsOf(n) == {b \in 0..30 : (n \div (2^b)) % 2 = 1}

RECURSIVE SumPow2(_)
SumPow2(S) == IF S = {} THEN 0
              ELSE LET b == CHOOSE e \in S : TRUE IN 2^b + SumPow2(S \ {b})

\* number -> model value, for |i| < 2^31
FromInt(i) == IF i < 0 THEN [neg |-> TRUE, mag |-> BitsOf(0 - i)]
              ELSE [neg |-> FALSE, mag |-> BitsOf(i)]

\* model value -> integer, for magnitudes below 2^31
ToInt(n) == IF n.neg THEN 0 - SumPow2(n.mag) ELSE SumPow2(n.mag)

Pow2Num(k) == [neg |-> FALSE, mag |-> {k}]

IsNegative(n) == n.neg

\* n < 2^k  (k >= 0)
LessThanPow2(n, k) == n.neg \/ \A b \in n.mag : b < k

\* magnitude + 1
IncMag(S) ==
    LET z == CHOOSE e \in 0..64 : e \notin S /\ \A d \in 0..(e - 1) : d \in S
    IN (S \ (0..(z - 1))) \cup {z}

\* magnitude - 1, for S # {}
DecMag(S) ==
    LET o == CHOOSE e \in S : \A d \in S : e <= d
    IN (S \ {o}) \cup (0..(o - 1))

\* n * 2
Twice(n) == [neg |-> n.neg, mag |-> {b + 1 : b \in n.mag}]

\* n + 1
PlusOne(n) ==
    IF n.neg
    THEN LET m == DecMag(n.mag) IN [neg |-> m # {}, mag |-> m]
    ELSE [neg |-> FALSE, mag |-> IncMag(n.mag)]

\* ToUint32: the low 32 bits of n as a bit pattern
ToUint32(n) ==
    LET low == n.mag \cap (0..(IntBits - 1))
    IN IF ~n.neg \/ low = {} THEN low
       ELSE IncMag((0..(IntBits - 1)) \ low) \cap (0..(IntBits - 1))

\* the signed 32-bit value of a 32-bit pattern
FromInt32Bits(u) ==
    IF (IntBits - 1) \in u
    THEN [neg |-> TRUE,
          mag |-> IncMag((0..(IntBits - 1)) \ u) \cap (0..IntBits)]
    ELSE [neg |-> FALSE, mag |-> u]

\* n >> 1 : ToInt32, then a sign-propagating shift
Sar1(n) ==
    LET u == ToUint32(n)
        s == {b - 1 : b \in (u \ {0})}
    IN FromInt32Bits(IF (IntBits - 1) \in u THEN s \cup {IntBits - 1} ELSE s)

----------------------------------------------------------------------------
(* TileKey.ts                                                              *)

NumFaces == 6

\* new TileKey(face, level, x, y): the constructed tile, or the error thrown
\* mutant: out-of-range face and level are clamped instead of rejected
TileKeyClamped(face, level, x, y) ==
    IF IsNegative(x) \/ IsNegative(y)
    THEN [tag |-> "throw", error |-> "Invalid tile coordinates"]
    ELSE [tag |-> "tile",
          face |-> IF face < 0 THEN 0 ELSE IF face > NumFaces - 1 THEN NumFaces - 1 ELSE face,
          level |-> IF level < 0 THEN 0 ELSE level,
          x |-> x, y |-> y]

TileKey(face, level, x, y) ==
    IF face < 0 \/ face > NumFaces - 1
    THEN [tag |-> "throw", error |-> "Invalid face"]
    ELSE IF level < 0
    THEN [tag |-> "throw", error |-> "Invalid LOD level"]
    ELSE IF IsNegative(x) \/ IsNegative(y)
    THEN [tag |-> "throw", error |-> "Invalid tile coordinates"]
    ELSE [tag |-> "tile", face |-> face, level |-> level, x |-> x, y |-> y]

Null == [tag |-> "null"]

\* a call that has not been made yet
Unset == [tag |-> "unset"]

\* mutant: the parent keeps the coordinates of the child
getParentNoShift(t) ==
    IF t.level = 0 THEN Null
    ELSE TileKey(t.face, t.level - 1, t.x, t.y)

getParent(t) ==
    IF t.level = 0 THEN Null
    ELSE TileKey(t.face, t.level - 1, Sar1(t.x), Sar1(t.y))

\* the 4 constructor calls of getChildren, in order; a throwing call
\* propagates out of getChildren
getChildren(t) ==
    LET nextLevel == t.level + 1
        nx == Twice(t.x)
        ny == Twice(t.y)
        cs == << TileKey(t.face, nextLevel, nx, ny),
                 TileKey(t.face, nextLevel, PlusOne(nx), ny),
                 TileKey(t.face, nextLevel, nx, PlusOne(ny)),
                 TileKey(t.face, nextLevel, PlusOne(nx), PlusOne(ny)) >>
    IN IF \E i \in 1..4 : cs[i].tag = "throw"
       THEN (CHOOSE c \in {cs[i] : i \in 1..4} : c.tag = "throw")
       ELSE [tag |-> "array", items |-> cs]

rootFaces == [i \in 1..NumFaces |-> TileKey(i - 1, 0, Zero, Zero)]

equals(a, b) ==
    a.face = b.face /\ a.level = b.level /\ a.x = b.x /\ a.y = b.y

\* `${face}/${level}/${x}/${y}` : the decimal digits of the four fields,
\* separated by "/" (a string is a sequence of one-character strings)
DigitChars == <<"0", "1", "2", "3", "4", "5", "6", "7", "8", "9">>

RECURSIVE Decimal(_)
Decimal(n) ==
    IF n < 0 THEN <<"-">> \o Decimal(0 - n)
    ELSE IF n < 10 THEN <<DigitChars[n + 1]>>
    ELSE Decimal(n \div 10) \o <<DigitChars[(n % 10) + 1]>>

\* mutant: the key names the face only
toStringFaceOnly(t) == Decimal(t.face)

toString(t) ==
    Decimal(t.face) \o <<"/">> \o Decimal(t.level) \o <<"/">>
        \o Decimal(ToInt(t.x)) \o <<"/">> \o Decimal(ToInt(t.y))

\* BigInt values >= 0 are the sets of their 1-bit positions; `|` is union
\* and `<< k` adds k to every position
toNumericKey(t) ==
    LET facePart == {b + 60 : b \in BitsOf(t.face)}
        levelPart == {b + 54 : b \in BitsOf(t.level)}
        xPart == {b + 27 : b \in t.x.mag}
        yPart == t.y.mag
    IN facePart \cup levelPart \cup xPart \cup yPart

----------------------------------------------------------------------------
(* Map<string, TileKey>: a function from the keys present to their values *)
(* (the iteration order of the Map is not modelled; an array filled by     *)
(* iterating a Map is modelled by the set of its elements).                *)

EmptyMap == << >>

MapHas(m, key) == key \in DOMAIN m

\* Map.set: the entry for key is added, or replaced when present
MapSet(m, key, value) == (key :> value) @@ m

MapValues(m) == {m[k] : k \in DOMAIN m}

----------------------------------------------------------------------------
(* TileBounds.ts                                                           *)
(*                                                                         *)
(* Lengths are integers in a unit of which the equatorial circumference    *)
(* (40075016.68 m) is Circumference.  Angles are arc lengths along the     *)
(* equator in the same unit, so a full turn is Circumference.  The         *)
(* ellipsoid is unrolled to the plane z = 0: the tile bounds use           *)
(* geodeticToECEFUnrolled, which at height 0                               *)
(* maps (lat, lon) to the point (lon, lat, 0), and tileToLat is linear in  *)
(* y over a half turn.  Math.sqrt is the integer square root.              *)

Circumference == 4096

RECURSIVE ISqrtFrom(_, _, _)
ISqrtFrom(n, lo, hi) ==
    IF lo >= hi THEN lo
    ELSE CHOOSE root \in
            { IF mid * mid <= n THEN ISqrtFrom(n, mid, hi)
              ELSE ISqrtFrom(n, lo, mid - 1) : mid \in {(lo + hi + 1) \div 2} } : TRUE

ISqrt(n) == ISqrtFrom(n, 0, 46340)

tileToLon(x, z) == (x * Circumference) \div (2^z) - Circumference \div 2

tileToLat(y, z) == Circumference \div 4 - (y * (Circumference \div 2)) \div (2^z)

geodeticToECEFUnrolled(g) == [x |-> g.lon, y |-> g.lat, z |-> g.height]

Max(a, b) == IF a >= b THEN a ELSE b

computeTileBoundingSphere(tile) ==
    LET minLon == tileToLon(ToInt(tile.x), tile.level)
        maxLon == tileToLon(ToInt(tile.x) + 1, tile.level)
        minLat == tileToLat(ToInt(tile.y) + 1, tile.level)
        maxLat == tileToLat(ToInt(tile.y), tile.level)
        centerLon == (minLon + maxLon) \div 2
        centerLat == (minLat + maxLat) \div 2
        center == geodeticToECEFUnrolled([lat |-> centerLat, lon |-> centerLon, height |-> 0])
        corners == << [lat |-> minLat, lon |-> minLon],
                      [lat |-> minLat, lon |-> maxLon],
                      [lat |-> maxLat, lon |-> minLon],
                      [lat |-> maxLat, lon |-> maxLon] >>
        distSq(c) ==
            LET pt == geodeticToECEFUnrolled([lat |-> c.lat, lon |-> c.lon, height |-> 0])
                dx == pt.x - center.x
                dy == pt.y - center.y
                dz == pt.z - center.z
            IN dx * dx + dy * dy + dz * dz
        maxDistSq == Max(Max(Max(Max(0, distSq(corners[1])), distSq(corners[2])),
                             distSq(corners[3])), distSq(corners[4]))
    IN [center |-> center, radius |-> (ISqrt(maxDistSq) * 3) \div 2]

----------------------------------------------------------------------------
(* FrustumPlanes.ts                                                        *)

NumPlanes == 6

\* FrustumPlanes.intersectsSphere; frustum is the array of 6 planes.  A plane
\* with NaN coefficients gives a NaN distance, and NaN < -radius is false.
intersectsSphere(frustum, x, y, z, radius) ==
    \A i \in 1..NumPlanes :
        LET p == frustum[i]
            distance == p.a * x + p.b * y + p.c * z + p.d
        IN ~p.finite \/ ~(distance < 0 - radius)

----------------------------------------------------------------------------
(* QuadtreeManager.ts                                                      *)

\* 40075016.68 / 256.0, in model units
BaseError == Circumference \div 256

\* 1 << level on 32-bit integers
Shl1(level) ==
    LET s == level % IntBits
    IN IF s = IntBits - 1 THEN (0 - 2^(IntBits - 2)) * 2 ELSE 2^s

\* computeGeometricError(level) as the fraction num / den
computeGeometricError(level) == [num |-> BaseError, den |-> Shl1(level)]

\* The tiles a traversal can visit with maxLevel <= MaxLevelBound, their
\* children, and their bounding spheres: computeTileBoundingSphere is a pure
\* function of the tile, so its value is computed once per tile.
MaxLevelBound == 2

TraversalTiles ==
    UNION { { TileKey(f, l, FromInt(x), FromInt(y)) :
                f \in 0..(NumFaces - 1), x \in 0..(2^l - 1), y \in 0..(2^l - 1) } :
            l \in 0..(MaxLevelBound + 1) }

boundsOfTile == [t \in TraversalTiles |-> computeTileBoundingSphere(t)]

\* the frustum test of processTile on the bounding sphere of a tile
passesFrustum(camera, tile) ==
    LET bounds == boundsOfTile[tile]
    IN intersectsSphere(camera.frustum, bounds.center.x, bounds.center.y,
                        bounds.center.z, bounds.radius)

\* Math.max(0.1, distanceToCenter - bounds.radius), in tenths of a unit
distanceTenths(camera, tile) ==
    LET bounds == boundsOfTile[tile]
        dx == bounds.center.x - camera.positionECEF.x
        dy == bounds.center.y - camera.positionECEF.y
        dz == bounds.center.z - camera.positionECEF.z
        distanceToCenter == ISqrt(dx * dx + dy * dy + dz * dz)
    IN Max(1, 10 * (distanceToCenter - bounds.radius))

\* mutant: the comparison of sse with the threshold is reversed
sseBelow(cfg, camera, tile) ==
    LET ge == computeGeometricError(tile.level)
        lhs == ge.num * 10 * camera.screenHeight
        rhs == cfg.sseThreshold * distanceTenths(camera, tile) * ge.den
    IN IF ge.den > 0 THEN lhs < rhs ELSE lhs > rhs

\* sse > sseThreshold, where sse = (geometricError / distance) * screenHeight.
\* A NaN position makes the distance and sse NaN, and NaN > sseThreshold is
\* false; an infinite screenHeight makes sse the infinity of the sign of
\* geometricError.
sseExceeds(cfg, camera, tile) ==
    LET ge == computeGeometricError(tile.level)
        lhs == ge.num * 10 * camera.screenHeight
        rhs == cfg.sseThreshold * distanceTenths(camera, tile) * ge.den
    IN IF camera.nonFinite = "position" THEN FALSE
       ELSE IF camera.nonFinite = "screenHeight" THEN ge.num * ge.den > 0
       ELSE IF ge.den > 0 THEN lhs > rhs ELSE lhs < rhs

\* mutant: the minLevel clause is left out
shouldRefineNoMin(cfg, camera, tile) ==
    /\ tile.level < cfg.maxLevel
    /\ sseExceeds(cfg, camera, tile)

\* mutant: the maxLevel comparison is off by one
shouldRefineOffByOne(cfg, camera, tile) ==
    /\ tile.level <= cfg.maxLevel
    /\ (sseExceeds(cfg, camera, tile) \/ tile.level < cfg.minLevel)

shouldRefine(cfg, camera, tile) ==
    /\ tile.level < cfg.maxLevel
    /\ (sseExceeds(cfg, camera, tile) \/ tile.level < cfg.minLevel)

\* processTile: the map nextTiles after the call.  processChildren is its
\* loop over the children, from child number i on.  JavaScript evaluates the
\* arguments of a call before the call: t and m are the values of the
\* arguments tile and nextTiles when the call begins.
RECURSIVE processTile(_, _, _, _)
RECURSIVE processChildren(_, _, _, _, _)
\* mutant: the loop ends after the first visible child
processChildrenFirstOnly(cfg, children, i, camera, nextTiles) ==
    IF i > 4 THEN nextTiles
    ELSE IF passesFrustum(camera, children[i])
    THEN processTile(cfg, children[i], camera, nextTiles)
    ELSE processChildren(cfg, children, i + 1, camera, nextTiles)

processChildren(cfg, children, i, camera, nextTiles) ==
    IF i > 4 THEN nextTiles
    ELSE processChildren(cfg, children, i + 1, camera,
            IF passesFrustum(camera, children[i])
            THEN processTile(cfg, children[i], camera, nextTiles)
            ELSE nextTiles)

\* mutant: the parent-retain rule is left out
processTileNoRetain(cfg, tile, camera, nextTiles) ==
    CHOOSE after \in
        { IF ~passesFrustum(camera, t) THEN m
          ELSE IF shouldRefine(cfg, camera, t)
          THEN processChildren(cfg, getChildren(t).items, 1, camera, m)
          ELSE MapSet(m, toString(t), t)
          : t \in {tile}, m \in {nextTiles} } : TRUE

\* mutant: the frustum test at the start of processTile is left out
processTileNoCull(cfg, tile, camera, nextTiles) ==
    CHOOSE after \in
        { IF shouldRefine(cfg, camera, t)
          THEN LET children == getChildren(t).items
                   anyChildVisible ==
                       \E i \in 1..4 : passesFrustum(camera, children[i])
                   afterChildren == processChildren(cfg, children, 1, camera, m)
               IN IF ~anyChildVisible
                  THEN MapSet(afterChildren, toString(t), t)
                  ELSE afterChildren
          ELSE MapSet(m, toString(t), t)
          : t \in {tile}, m \in {nextTiles} } : TRUE

\* mutant: a tile that is not refined is written only at maxLevel
processTileLeafAtMaxOnly(cfg, tile, camera, nextTiles) ==
    CHOOSE after \in
        { IF ~passesFrustum(camera, t) THEN m
          ELSE IF shouldRefine(cfg, camera, t)
          THEN LET children == getChildren(t).items
                   anyChildVisible ==
                       \E i \in 1..4 : passesFrustum(camera, children[i])
                   afterChildren == processChildren(cfg, children, 1, camera, m)
               IN IF ~anyChildVisible
                  THEN MapSet(afterChildren, toString(t), t)
                  ELSE afterChildren
          ELSE IF t.level >= cfg.maxLevel THEN MapSet(m, toString(t), t) ELSE m
          : t \in {tile}, m \in {nextTiles} } : TRUE

\* mutant: a refined tile is written as well as its children
processTileKeepsParent(cfg, tile, camera, nextTiles) ==
    CHOOSE after \in
        { IF ~passesFrustum(camera, t) THEN m
          ELSE IF shouldRefine(cfg, camera, t)
          THEN MapSet(processChildren(cfg, getChildren(t).items, 1, camera, m),
                      toString(t), t)
          ELSE MapSet(m, toString(t), t)
          : t \in {tile}, m \in {nextTiles} } : TRUE

processTile(cfg, tile, camera, nextTiles) ==
    CHOOSE after \in
        { IF ~passesFrustum(camera, t) THEN m
          ELSE IF shouldRefine(cfg, camera, t)
          THEN LET children == getChildren(t).items
                   anyChildVisible ==
                       \E i \in 1..4 : passesFrustum(camera, children[i])
                   afterChildren == processChildren(cfg, children, 1, camera, m)
               IN IF ~anyChildVisible
                  THEN MapSet(afterChildren, toString(t), t)
                  ELSE afterChildren
          ELSE MapSet(m, toString(t), t)
          : t \in {tile}, m \in {nextTiles} } : TRUE

\* the loop of update over rootFaces(), from root number i on
RECURSIVE processRoots(_, _, _, _)
processRoots(cfg, i, camera, nextTiles) ==
    IF i > NumFaces THEN nextTiles
    ELSE processRoots(cfg, i + 1, camera,
                      processTile(cfg, rootFaces[i], camera, nextTiles))

\* the activeTiles map the constructor builds
constructorTiles ==
    [k \in {toString(rootFaces[i]) : i \in 1..NumFaces} |->
        CHOOSE r \in {rootFaces[i] : i \in 1..NumFaces} : toString(r) = k]

\* mutant: this.activeTiles is not replaced by nextTiles
updateKeepsMap(cfg, tiles, camera) ==
    LET nextTiles == processRoots(cfg, 1, camera, EmptyMap)
    IN [tag |-> "result",
        active |-> MapValues(nextTiles),
        added |-> {nextTiles[k] : k \in {q \in DOMAIN nextTiles : ~MapHas(tiles, q)}},
        removed |-> {tiles[k] : k \in {q \in DOMAIN tiles : ~MapHas(nextTiles, q)}},
        activeTiles |-> tiles]

\* mutant: removed is computed after this.activeTiles = nextTiles
updateRemovedAfterSwap(cfg, tiles, camera) ==
    LET nextTiles == processRoots(cfg, 1, camera, EmptyMap)
    IN [tag |-> "result",
        active |-> MapValues(nextTiles),
        added |-> {nextTiles[k] : k \in {q \in DOMAIN nextTiles : ~MapHas(tiles, q)}},
        removed |-> {nextTiles[k] : k \in {q \in DOMAIN nextTiles : ~MapHas(nextTiles, q)}},
        activeTiles |-> nextTiles]

\* mutant: the traversal writes into the previous map instead of a new Map
updateIncremental(cfg, tiles, camera) ==
    LET nextTiles == processRoots(cfg, 1, camera, tiles)
    IN [tag |-> "result",
        active |-> MapValues(nextTiles),
        added |-> {nextTiles[k] : k \in {q \in DOMAIN nextTiles : ~MapHas(tiles, q)}},
        removed |-> {tiles[k] : k \in {q \in DOMAIN tiles : ~MapHas(nextTiles, q)}},
        activeTiles |-> nextTiles]

\* the second half of update: the diff of nextTiles against the map tiles,
\* the replacement of this.activeTiles, and the returned object
diffAndStore(tiles, nextTiles) ==
    [tag |-> "result",
     active |-> MapValues(nextTiles),
     added |-> {nextTiles[k] : k \in {q \in DOMAIN nextTiles : ~MapHas(tiles, q)}},
     removed |-> {tiles[k] : k \in {q \in DOMAIN tiles : ~MapHas(nextTiles, q)}},
     activeTiles |-> nextTiles]

\* update(camera) on a manager whose map is tiles: what it returns, and the
\* map it leaves in this.activeTiles
update(cfg, tiles, camera) ==
    CHOOSE returned \in
        { diffAndStore(tiles, nextTiles)
          : nextTiles \in {processRoots(cfg, 1, camera, EmptyMap)} } : TRUE

\* one processTile call without the calls it makes: the map after its own
\* writes, and the children it calls processTile on
visitTile(cfg, tile, camera, nextTiles) ==
    IF ~passesFrustum(camera, tile)
    THEN [nextTiles |-> nextTiles, calls |-> {}]
    ELSE IF shouldRefine(cfg, camera, tile)
    THEN LET children == getChildren(tile).items
             visible == {i \in 1..4 : passesFrustum(camera, children[i])}
         IN [nextTiles |-> IF visible = {}
                           THEN MapSet(nextTiles, toString(tile), tile)
                           ELSE nextTiles,
             calls |-> {children[i] : i \in visible}]
    ELSE [nextTiles |-> MapSet(nextTiles, toString(tile), tile), calls |-> {}]

getActiveTiles(tiles) == MapValues(tiles)

\* the tiles processTile is called on during the traversal below tile
RECURSIVE reachedFrom(_, _, _)
reachedFrom(cfg, tile, camera) ==
    IF passesFrustum(camera, tile) /\ shouldRefine(cfg, camera, tile)
    THEN LET children == getChildren(tile).items
         IN {tile} \cup UNION {reachedFrom(cfg, children[i], camera) :
                                 i \in {j \in 1..4 : passesFrustum(camera, children[j])}}
    ELSE {tile}

reached(cfg, camera) ==
    UNION {reachedFrom(cfg, rootFaces[i], camera) : i \in 1..NumFaces}

\* the tiles whose bounding sphere the traversal computes: those processTile
\* is called on, and the children of those it refines
examined(cfg, camera) ==
    LET called == reached(cfg, camera)
    IN called \cup
       UNION { {getChildren(t).items[i] : i \in 1..4} :
               t \in {u \in called : passesFrustum(camera, u)
                                       /\ shouldRefine(cfg, camera, u)} }

\* a is a proper ancestor of d in the quadtree (by getParent)
RECURSIVE IsAncestor(_, _)
IsAncestor(a, d) ==
    /\ d.level > a.level
    /\ LET p == getParent(d)
       IN p.tag = "tile" /\ (equals(p, a) \/ IsAncestor(a, p))

KeysOf(tiles) == {toString(t) : t \in tiles}

----------------------------------------------------------------------------
(* Inputs of the QuadtreeManager specifications                            *)

MinLevels == {0, 2}

Thresholds == {2, 8, 64}

\* 6378137 m in model units
PlanetRadius == 652

Configs ==
    [planetRadius : {PlanetRadius}, maxLevel : 0..MaxLevelBound,
     minLevel : MinLevels, sseThreshold : Thresholds]

\* A camera at (cx, cy, alt) looking straight down: the frustum is the box
\* |x - cx| <= e, |y - cy| <= e, alt - far <= z <= alt - 1, as 6 planes with
\* unit normals in the order Left, Right, Bottom, Top, Near, Far.
LookDown(cx, cy, e, alt, far, h) ==
    [positionECEF |-> [x |-> cx, y |-> cy, z |-> alt],
     screenHeight |-> h,
     nonFinite |-> "none",
     frustum |->
        << [a |-> 1, b |-> 0, c |-> 0, d |-> e - cx, finite |-> TRUE],
           [a |-> -1, b |-> 0, c |-> 0, d |-> cx + e, finite |-> TRUE],
           [a |-> 0, b |-> 1, c |-> 0, d |-> e - cy, finite |-> TRUE],
           [a |-> 0, b |-> -1, c |-> 0, d |-> cy + e, finite |-> TRUE],
           [a |-> 0, b |-> 0, c |-> -1, d |-> alt - 1, finite |-> TRUE],
           [a |-> 0, b |-> 0, c |-> 1, d |-> far - alt, finite |-> TRUE] >>]

Cameras ==
    { LookDown(0, 0, 100, 1000, 20000, 1080),
      LookDown(0, 0, 5000, 4000, 20000, 1080),
      LookDown(0, 0, 5000, 9000, 2000, 1080),
      LookDown(3200, 0, 100, 1000, 20000, 1080),
      LookDown(700, 0, 600, 1000, 20000, 1080),
      LookDown(1500, 700, 3000, 2500, 20000, 720) }

----------------------------------------------------------------------------
(* Specification Spec: one QuadtreeManager, constructed with a config      *)
(* drawn from Configs, on which update is called with cameras drawn from   *)
(* Cameras.                                                                *)

TileIdle ==
    /\ args = Unset
    /\ made = Unset
    /\ parent = Unset
    /\ kids = Unset

StepIdle ==
    /\ traversing = Unset
    /\ building = EmptyMap
    /\ pending = {}
    /\ reordered = FALSE

KeyIdle ==
    /\ first = Unset
    /\ second = Unset
    /\ keys = Unset
    /\ firstParent = Unset
    /\ firstChildren = Unset
    /\ childParents = Unset

GeoIdle ==
    /\ anchor = Unset
    /\ call = Unset
    /\ ret = Unset
    /\ loop = Unset
    /\ moves = 0

RestIdle ==
    /\ consumer = {}
    /\ pureCall = Unset
    /\ pureRet = Unset
    /\ player = Unset
    /\ recenterThreshold = Unset
    /\ held = Unset
    /\ aliased = {}
    /\ calls = 0
    /\ downloads = << >>
    /\ activeRequests = 0
    /\ abortControllers = 0
    /\ imageCache = FALSE
    /\ failedRequests = FALSE
    /\ fetched = Unset

Init ==
    /\ TileIdle
    /\ StepIdle
    /\ KeyIdle
    /\ GeoIdle
    /\ RestIdle
    /\ config \in Configs
    /\ activeTiles = constructorTiles
    /\ result = Unset
    /\ lastCamera = Unset
    /\ prevCamera = Unset
    /\ prevTiles = constructorTiles
    /\ prevActive = {}

\* this.quadtree.update(camera): the call and what it leaves in the manager
CallUpdate(camera) ==
    \E r \in {update(config, activeTiles, camera)} :
       /\ result' = [tag |-> "result", active |-> r.active,
                     added |-> r.added, removed |-> r.removed]
       /\ activeTiles' = r.activeTiles
       /\ prevTiles' = activeTiles
       /\ prevActive' = IF result = Unset THEN {} ELSE result.active
       /\ prevCamera' = lastCamera
       /\ lastCamera' = camera
       /\ UNCHANGED <<config, args, made, parent, kids>>
       /\ UNCHANGED <<stepVars, keyVars, geoVars>>

Update(camera) == CallUpdate(camera) /\ UNCHANGED restVars

Next == \E camera \in Cameras : Update(camera)

Spec == Init /\ [][Next]_vars

----------------------------------------------------------------------------
(* Specification SpecTile: TileKey construction and hierarchy calls on     *)
(* inputs drawn from bounded sets.                                         *)

MaxTileLevel == 33

FaceInputs == {-1, 0, 5, 6}

LevelInputs == {-1, 0, 1, 2, IntBits - 1, IntBits, MaxTileLevel}

CoordInputs ==
    {FromInt(i) : i \in -1..4}
    \cup {Pow2Num(IntBits - 1), PlusOne(Pow2Num(IntBits - 1)),
          Pow2Num(IntBits), PlusOne(Pow2Num(IntBits))}

MgrIdle ==
    /\ config = [planetRadius |-> PlanetRadius, maxLevel |-> 0, minLevel |-> 0,
                 sseThreshold |-> 8]
    /\ activeTiles = constructorTiles
    /\ result = Unset
    /\ lastCamera = Unset
    /\ prevCamera = Unset
    /\ prevTiles = constructorTiles
    /\ prevActive = {}

InitTile == TileIdle /\ MgrIdle /\ StepIdle /\ KeyIdle /\ GeoIdle /\ RestIdle

Construct ==
    /\ args = Unset \/ kids # Unset
    /\ \E f \in FaceInputs, l \in LevelInputs, x \in CoordInputs, y \in CoordInputs :
          /\ args' = [tag |-> "args", face |-> f, level |-> l, x |-> x, y |-> y]
          /\ made' = TileKey(f, l, x, y)
          /\ parent' = Unset
          /\ kids' = Unset
          /\ UNCHANGED <<mgrVars, stepVars, keyVars, geoVars, restVars>>

CallGetParent ==
    /\ made.tag = "tile"
    /\ parent = Unset
    /\ parent' = getParent(made)
    /\ UNCHANGED <<args, made, kids>>
    /\ UNCHANGED <<mgrVars, stepVars, keyVars, geoVars, restVars>>

CallGetChildren ==
    /\ parent.tag = "tile"
    /\ kids = Unset
    /\ kids' = getChildren(parent)
    /\ UNCHANGED <<args, made, parent>>
    /\ UNCHANGED <<mgrVars, stepVars, keyVars, geoVars, restVars>>

NextTile == Construct \/ CallGetParent \/ CallGetChildren

SpecTile == InitTile /\ [][NextTile]_vars

----------------------------------------------------------------------------
(* Specification SpecKey: two tiles constructed from inputs drawn from     *)
(* bounded sets, their keys, and the hierarchy calls on the first.         *)

KeyFaces == {0, NumFaces - 1}

KeyLevels == {0, 1, 28, 29, IntBits - 1, 63}

KeyXs == {Zero, FromInt(1), Pow2Num(27), Pow2Num(IntBits - 2)}

KeyYs == {Zero, FromInt(1), Pow2Num(27)}

KeyTiles ==
    { TileKey(f, l, x, y) : f \in KeyFaces, l \in KeyLevels,
                            x \in KeyXs, y \in KeyYs }

InitKey ==
    /\ TileIdle /\ MgrIdle /\ StepIdle /\ GeoIdle /\ RestIdle
    /\ first \in {t \in KeyTiles : t.tag = "tile"}
    /\ second \in {t \in KeyTiles : t.tag = "tile"}
    /\ keys = Unset
    /\ firstParent = Unset
    /\ firstChildren = Unset
    /\ childParents = Unset

CallKeys ==
    /\ first # Unset
    /\ keys = Unset
    /\ keys' = [s1 |-> toString(first), s2 |-> toString(second),
                n1 |-> toNumericKey(first), n2 |-> toNumericKey(second)]
    /\ UNCHANGED <<first, second, firstParent, firstChildren, childParents>>
    /\ UNCHANGED <<tileVars, mgrVars, stepVars, geoVars, restVars>>

CallGetParentOfFirst ==
    /\ first # Unset
    /\ firstParent = Unset
    /\ firstParent' = getParent(first)
    /\ UNCHANGED <<first, second, keys, firstChildren, childParents>>
    /\ UNCHANGED <<tileVars, mgrVars, stepVars, geoVars, restVars>>

CallGetChildrenOfFirst ==
    /\ first # Unset
    /\ firstChildren = Unset
    /\ firstChildren' = getChildren(first)
    /\ UNCHANGED <<first, second, keys, firstParent, childParents>>
    /\ UNCHANGED <<tileVars, mgrVars, stepVars, geoVars, restVars>>

\* getParent() called on each element of the array getChildren returned
CallGetParentOfChildren ==
    /\ firstChildren # Unset
    /\ childParents = Unset
    /\ childParents' =
          IF firstChildren.tag = "array"
          THEN [i \in 1..4 |-> getParent(firstChildren.items[i])]
          ELSE << >>
    /\ UNCHANGED <<first, second, keys, firstParent, firstChildren>>
    /\ UNCHANGED <<tileVars, mgrVars, stepVars, geoVars, restVars>>

NextKey ==
    \/ CallKeys
    \/ CallGetParentOfFirst
    \/ CallGetChildrenOfFirst
    \/ CallGetParentOfChildren

SpecKey == InitKey /\ [][NextKey]_vars

----------------------------------------------------------------------------
(* Specification SpecOrder: one update call taken apart into its           *)
(* processTile calls, which run one at a time in any order: the 6 root     *)
(* faces in any order, the children of a refined tile in any order, and    *)
(* the traversals of different root faces interleaved.  All of them write  *)
(* to the one map nextTiles.                                               *)

OrderMaxLevel == 1

OrderConfigs ==
    [planetRadius : {PlanetRadius}, maxLevel : 0..OrderMaxLevel,
     minLevel : {2}, sseThreshold : {8}]

OrderCameras ==
    { LookDown(2700, 0, 100, 1000, 20000, 1080),
      LookDown(3200, 0, 100, 1000, 20000, 1080) }

InitOrder ==
    /\ TileIdle
    /\ StepIdle
    /\ KeyIdle
    /\ GeoIdle
    /\ RestIdle
    /\ config \in OrderConfigs
    /\ activeTiles = constructorTiles
    /\ result = Unset
    /\ lastCamera = Unset
    /\ prevCamera = Unset
    /\ prevTiles = constructorTiles
    /\ prevActive = {}

\* update, lines 52-56: a new Map, and processTile called on each root face
BeginUpdate(camera) ==
    /\ traversing = Unset
    /\ traversing' = camera
    /\ building' = EmptyMap
    /\ pending' = {rootFaces[i] : i \in 1..NumFaces}
    /\ reordered' = FALSE
    /\ UNCHANGED <<tileVars, mgrVars, keyVars, geoVars, restVars>>

\* one processTile call
VisitTile(tile) ==
    /\ traversing # Unset
    /\ tile \in pending
    /\ \E v \in {visitTile(config, tile, traversing, building)} :
          /\ building' = v.nextTiles
          /\ pending' = (pending \ {tile}) \cup v.calls
    /\ reordered' = (reordered \/ \E u \in pending : u.face < tile.face)
    /\ UNCHANGED <<traversing, tileVars, mgrVars, keyVars, geoVars, restVars>>

\* update, lines 58-77, once every processTile call has returned
FinishUpdate ==
    /\ traversing # Unset
    /\ pending = {}
    /\ \E r \in {diffAndStore(activeTiles, building)} :
          /\ result' = [tag |-> "result", active |-> r.active,
                        added |-> r.added, removed |-> r.removed]
          /\ activeTiles' = r.activeTiles
    /\ prevTiles' = activeTiles
    /\ prevActive' = IF result = Unset THEN {} ELSE result.active
    /\ prevCamera' = lastCamera
    /\ lastCamera' = traversing
    /\ traversing' = Unset
    /\ building' = EmptyMap
    /\ UNCHANGED <<config, pending, reordered, tileVars, keyVars, geoVars, restVars>>

NextOrder ==
    \/ \E camera \in OrderCameras : BeginUpdate(camera)
    \/ \E tile \in pending : VisitTile(tile)
    \/ FinishUpdate

SpecOrder == InitOrder /\ [][NextOrder]_vars

----------------------------------------------------------------------------
(* Claims on the QuadtreeManager (specification Spec)                      *)

Updated == result # Unset

\* the map this call's traversal computes (N), and a manager with no
\* earlier update call
TraversalOf(cfg, camera) == processRoots(cfg, 1, camera, EmptyMap)

FreshUpdate(cfg, camera) == update(cfg, constructorTiles, camera)

NoChildPasses(camera, tile) ==
    \A i \in 1..4 : ~passesFrustum(camera, getChildren(tile).items[i])

\* C1: update(c) called twice in a row returns the same set of tile keys in
\* `active` both times, and the second call returns empty `added` and
\* empty `removed`.
C1_Determinism ==
    (Updated /\ prevCamera # Unset /\ lastCamera = prevCamera)
        => /\ KeysOf(result.active) = KeysOf(prevActive)
           /\ result.added = {}
           /\ result.removed = {}

C1_Witness ==
    /\ Updated
    /\ prevCamera # Unset
    /\ lastCamera = prevCamera
    /\ Cardinality(result.active) > NumFaces

\* C2: with P the map before the call and N the map this call's traversal
\* computes: active = N, added = N \ P, removed = P \ N (by key); added and
\* removed are disjoint, added is within active, removed is disjoint from
\* active, and getActiveTiles() returns exactly N after the call.
C2_Delta ==
    Updated =>
        LET N == TraversalOf(config, lastCamera)
            P == prevTiles
        IN /\ result.active = MapValues(N)
           /\ result.added = {N[k] : k \in (DOMAIN N) \ (DOMAIN P)}
           /\ result.removed = {P[k] : k \in (DOMAIN P) \ (DOMAIN N)}
           /\ result.added \cap result.removed = {}
           /\ result.added \subseteq result.active
           /\ result.removed \cap result.active = {}
           /\ getActiveTiles(activeTiles) = MapValues(N)

C2_Witness ==
    /\ Updated
    /\ result.added # {}
    /\ result.removed # {}
    /\ result.added # result.active

\* C3: the `active` set update(c) returns is the one a manager with the same
\* config and no earlier update call returns for c, whatever the history.
C3_HistoryFree ==
    Updated =>
        KeysOf(result.active) = KeysOf(FreshUpdate(config, lastCamera).active)

C3_Witness ==
    /\ Updated
    /\ prevCamera # Unset
    /\ prevTiles # constructorTiles
    /\ result.active # {}
    /\ result.added # FreshUpdate(config, lastCamera).added

\* C4: a tile the traversal reaches that passes the frustum test while none
\* of its 4 children does is in `active`, and none of its descendants is.
C4_ParentRetain ==
    Updated =>
        \A t \in reached(config, lastCamera) :
            (passesFrustum(lastCamera, t) /\ NoChildPasses(lastCamera, t))
                => /\ t \in result.active
                   /\ \A d \in result.active : ~IsAncestor(t, d)

C4_Witness ==
    /\ Updated
    /\ \E t \in reached(config, lastCamera) :
          /\ passesFrustum(lastCamera, t)
          /\ shouldRefine(config, lastCamera, t)
          /\ NoChildPasses(lastCamera, t)
          /\ t \in result.active

\* C5: for every tile the traversal reaches that passes the frustum test,
\* `active` contains the tile or at least one of its descendants.
C5_Coverage ==
    Updated =>
        \A t \in reached(config, lastCamera) :
            passesFrustum(lastCamera, t)
                => \/ t \in result.active
                   \/ \E d \in result.active : IsAncestor(t, d)

C5_Witness ==
    /\ Updated
    /\ \E t \in reached(config, lastCamera) :
          /\ passesFrustum(lastCamera, t)
          /\ t.level = 0
          /\ t \notin result.active
          /\ \E d \in result.active : IsAncestor(t, d) /\ d.level = 2

\* C6: for a fixed camera and an otherwise identical config, a threshold
\* T2 >= T1 never gives more active tiles than T1.
C6_Monotone ==
    Updated =>
        \A T2 \in Thresholds :
            T2 >= config.sseThreshold
                => Cardinality(FreshUpdate([config EXCEPT !.sseThreshold = T2],
                                           lastCamera).active)
                       <= Cardinality(result.active)

C6_Witness ==
    /\ Updated
    /\ \E T2 \in Thresholds :
          /\ T2 > config.sseThreshold
          /\ Cardinality(FreshUpdate([config EXCEPT !.sseThreshold = T2],
                                     lastCamera).active)
                 < Cardinality(result.active)
          /\ FreshUpdate([config EXCEPT !.sseThreshold = T2], lastCamera).active # {}

----------------------------------------------------------------------------
(* Claim on the order of the processTile calls (specification SpecOrder)   *)

\* C7: the `active` set one update computes is the same for every order in
\* which the 6 root faces and the 4 children of each refined tile are
\* processed, including any interleaving of the per-root-face traversals
\* that write to the shared map: it is the set the code's own order gives.
C7_OrderIndependent ==
    (traversing # Unset /\ pending = {})
        => MapValues(building) = MapValues(TraversalOf(config, traversing))

C7_Witness ==
    /\ traversing # Unset
    /\ pending = {}
    /\ reordered
    /\ Cardinality(DOMAIN building) > NumFaces
    /\ MapValues(building) = MapValues(TraversalOf(config, traversing))


----------------------------------------------------------------------------
(* Claims on TileKey (specification SpecTile)                              *)

Constructed == args # Unset

OutOfRange(a) ==
    a.face < 0 \/ a.face > 5 \/ a.level < 0 \/ IsNegative(a.x) \/ IsNegative(a.y)

\* C8: for every tile t with level > 0, x < 2^level and y < 2^level,
\* t.getParent() is not null and t.getParent().getChildren() contains
\* exactly one tile equal to t.
C8_RoundTrip ==
    (/\ Constructed
     /\ made.tag = "tile"
     /\ made.level > 0
     /\ LessThanPow2(made.x, made.level)
     /\ LessThanPow2(made.y, made.level)
     /\ parent # Unset)
        => /\ parent.tag = "tile"
           /\ kids # Unset
                => /\ kids.tag = "array"
                   /\ Cardinality({i \in 1..4 : equals(kids.items[i], made)}) = 1

\* C9: constructing a tile with x >= 2^level or y >= 2^level fails with an
\* error and yields no tile.
C9_RangeRejected ==
    (/\ Constructed
     /\ ~LessThanPow2(args.x, args.level) \/ ~LessThanPow2(args.y, args.level))
        => made.tag = "throw"

\* C10: constructing with face outside 0..5, level < 0, x < 0 or y < 0
\* throws and yields no tile; with in-range values the tile holds face,
\* level, x and y exactly as given, and still does after getParent and
\* getChildren have been called.
C10_Validates ==
    Constructed =>
        IF OutOfRange(args)
        THEN made.tag = "throw"
        ELSE made = [tag |-> "tile", face |-> args.face, level |-> args.level,
                     x |-> args.x, y |-> args.y]

C10_Witness ==
    /\ Constructed
    /\ ~OutOfRange(args)
    /\ made.tag = "tile"
    /\ made.x = PlusOne(Pow2Num(IntBits))
    /\ parent.tag = "tile"
    /\ kids.tag = "array"

----------------------------------------------------------------------------
(* Claims on the refinement rules (specification Spec)                     *)

MinOf(a, b) == IF a <= b THEN a ELSE b

\* C16: every tile in `active` passes the frustum test and so does each of
\* its ancestors; a tile that fails the frustum test is never in `active`,
\* and neither is any of its descendants.
C16_Prune ==
    Updated =>
        \A d \in result.active :
            /\ passesFrustum(lastCamera, d)
            /\ \A t \in TraversalTiles :
                  IsAncestor(t, d) => passesFrustum(lastCamera, t)

C16_Witness ==
    /\ Updated
    /\ \E d \in result.active : d.level = 2
    /\ \E t \in TraversalTiles :
          /\ t.level = 2
          /\ ~passesFrustum(lastCamera, t)
          /\ passesFrustum(lastCamera, getParent(t))
          /\ t \notin result.active

\* C17 as stated: every tile in `active` has level >= min(minLevel,
\* maxLevel), for every camera position and frustum.
C17_MinDepth ==
    Updated =>
        \A d \in result.active :
            d.level >= MinOf(config.minLevel, config.maxLevel)

\* C17 amended: every tile in `active` has level >= min(minLevel, maxLevel),
\* except a tile that passes the frustum test while none of its 4 children
\* does (the parent-retain rule keeps such a tile at its own level).
C17_MinDepthUnlessRetained ==
    Updated =>
        \A d \in result.active :
            \/ d.level >= MinOf(config.minLevel, config.maxLevel)
            \/ (passesFrustum(lastCamera, d) /\ NoChildPasses(lastCamera, d))

C17_Witness ==
    /\ Updated
    /\ config.minLevel = 2
    /\ config.maxLevel = 1
    /\ result.active # {}
    /\ \A d \in result.active : d.level = 1
    /\ \E d \in result.active : ~sseExceeds(config, lastCamera, getParent(d))

\* C18: for a config with maxLevel >= 0, every tile the traversal visits
\* and every tile in `active`, in `added` or in the stored map after an
\* update has level <= maxLevel.
C18_MaxLevel ==
    (Updated /\ config.maxLevel >= 0) =>
        \A t \in examined(config, lastCamera) \cup result.active
                 \cup result.added \cup getActiveTiles(activeTiles) :
            t.level <= config.maxLevel

C18_Witness ==
    /\ Updated
    /\ config.maxLevel = 1
    /\ \E t \in result.active :
          /\ t.level = 1
          /\ sseExceeds(config, lastCamera, t)

\* C19: a tile the traversal reaches that passes the frustum test and does
\* not satisfy shouldRefine is itself in `active`, and no descendant of it
\* is visited or in `active`.
C19_LeafRule ==
    Updated =>
        \A t \in reached(config, lastCamera) :
            (passesFrustum(lastCamera, t) /\ ~shouldRefine(config, lastCamera, t))
                => /\ t \in result.active
                   /\ \A d \in examined(config, lastCamera) \cup result.active :
                         ~IsAncestor(t, d)

C19_Witness ==
    /\ Updated
    /\ \E t \in reached(config, lastCamera) :
          /\ passesFrustum(lastCamera, t)
          /\ t.level = 1
          /\ t.level < config.maxLevel
          /\ t.level >= config.minLevel
          /\ ~sseExceeds(config, lastCamera, t)
          /\ t \in result.active
          /\ \E i \in 1..4 : passesFrustum(lastCamera, getChildren(t).items[i])

----------------------------------------------------------------------------
(* Claims on TileKey keys and hierarchy (specification SpecKey)            *)

InRange(t) == LessThanPow2(t.x, t.level) /\ LessThanPow2(t.y, t.level)

\* C11: for any two tiles with level <= 63, x < 2^level and y < 2^level
\* that differ in face, level, x or y, the toString() values differ and the
\* toNumericKey() values differ.
C11_KeysInjective ==
    (/\ keys # Unset
     /\ first.level <= 63 /\ second.level <= 63
     /\ InRange(first) /\ InRange(second)
     /\ ~equals(first, second))
        => /\ keys.s1 # keys.s2
           /\ keys.n1 # keys.n2

\* C20: for every tile t (with x < 2^level and y < 2^level), getChildren()
\* returns exactly 4 tiles on the same face at level+1 in the order (2x,2y),
\* (2x+1,2y), (2x,2y+1), (2x+1,2y+1); getParent() of each of them equals t;
\* getParent() of a level-0 tile is null.
C20_ChildrenAndParent ==
    (first # Unset /\ InRange(first)) =>
        /\ firstChildren # Unset =>
              /\ firstChildren.tag = "array"
              /\ firstChildren.items =
                    [i \in 1..4 |->
                        [tag |-> "tile", face |-> first.face,
                         level |-> first.level + 1,
                         x |-> IF i \in {2, 4} THEN PlusOne(Twice(first.x))
                                               ELSE Twice(first.x),
                         y |-> IF i \in {3, 4} THEN PlusOne(Twice(first.y))
                                               ELSE Twice(first.y)]]
        /\ (childParents # Unset /\ firstChildren.tag = "array") =>
              \A i \in 1..4 :
                  /\ childParents[i].tag = "tile"
                  /\ equals(childParents[i], first)
        /\ (firstParent # Unset /\ first.level = 0) => firstParent = Null

----------------------------------------------------------------------------
(* PlanetMath.ts                                                           *)
(*                                                                         *)
(* Numbers are fixed-point integers.  Lengths are in kilometres.  Angles   *)
(* are in units of 1/Scale radian, and the values of sin and cos and the   *)
(* other dimensionless factors are in units of 1/Scale.  Every division    *)
(* rounds to the nearest unit.  Math.sin, Math.cos and Math.atan2 are      *)
(* their power series after range reduction; Math.sqrt is the integer      *)
(* square root.  NaN and Infinity have no stand-in: the inputs keep x or y *)
(* nonzero, so that no division by zero happens.                           *)

Scale == 10000

Pi == 31416

HalfPi == Pi \div 2

QuarterPi == Pi \div 4

Abs(n) == IF n < 0 THEN 0 - n ELSE n

\* n / d rounded to the nearest integer, for d # 0
DivR(n, d) ==
    CHOOSE q \in
        { IF m >= 0 THEN (m + e \div 2) \div e
          ELSE 0 - (((0 - m) + e \div 2) \div e)
          : m \in {IF d < 0 THEN 0 - n ELSE n}, e \in {Abs(d)} } : TRUE

\* the product of a value and a factor in units of 1/Scale
Mul(a, b) == DivR(a * b, Scale)

\* sin and cos for |x| <= pi/4
sinSmall(x) ==
    LET x2 == Mul(x, x)
        x3 == Mul(x2, x)
        x5 == Mul(x3, x2)
        x7 == Mul(x5, x2)
    IN x - DivR(x3, 6) + DivR(x5, 120) - DivR(x7, 5040)

cosSmall(x) ==
    LET x2 == Mul(x, x)
        x4 == Mul(x2, x2)
        x6 == Mul(x4, x2)
    IN Scale - DivR(x2, 2) + DivR(x4, 24) - DivR(x6, 720)

\* an angle reduced to (-pi, pi]
Wrap(x) ==
    LET r == x % (2 * Pi)
    IN IF r > Pi THEN r - 2 * Pi ELSE r

\* Math.sin and Math.cos for 0 <= x <= pi
sinUpper(x) ==
    LET y == IF x > HalfPi THEN Pi - x ELSE x
    IN IF y <= QuarterPi THEN sinSmall(y) ELSE cosSmall(HalfPi - y)

cosUpper(x) ==
    IF x > HalfPi
    THEN LET y == Pi - x
         IN 0 - (IF y <= QuarterPi THEN cosSmall(y) ELSE sinSmall(HalfPi - y))
    ELSE IF x <= QuarterPi THEN cosSmall(x) ELSE sinSmall(HalfPi - x)

sin(x) ==
    CHOOSE s \in { IF w < 0 THEN 0 - sinUpper(0 - w) ELSE sinUpper(w)
                   : w \in {Wrap(x)} } : TRUE

cos(x) == CHOOSE c \in { cosUpper(w) : w \in {Abs(Wrap(x))} } : TRUE

\* Math.cos as a divisor: the cosine of a double is never exactly 0, so a
\* value that rounds to 0 is the smallest unit of the sign it has
cosDivisor(x) ==
    CHOOSE r \in
        { IF c # 0 THEN c
          ELSE IF Abs(Wrap(x)) < HalfPi THEN 1 ELSE 0 - 1
          : c \in {cos(x)} } : TRUE

\* atan for |t| <= tan(pi/8), and for 0 <= t <= 1
atanSmall(t) ==
    LET t2 == Mul(t, t)
        t3 == Mul(t2, t)
        t5 == Mul(t3, t2)
        t7 == Mul(t5, t2)
        t9 == Mul(t7, t2)
    IN t - DivR(t3, 3) + DivR(t5, 5) - DivR(t7, 7) + DivR(t9, 9)

atanUnit(t) ==
    IF t <= 4142 THEN atanSmall(t)
    ELSE CHOOSE r \in { QuarterPi + atanSmall(u)
                        : u \in {DivR((t - Scale) * Scale, t + Scale)} } : TRUE

\* Math.atan2(y, x)
atan2(y, x) ==
    CHOOSE r \in
        { IF vx = 0 /\ vy = 0 THEN 0
          ELSE CHOOSE b \in
                 { IF vy >= 0 THEN (IF vx < 0 THEN Pi - a ELSE a)
                   ELSE 0 - (IF vx < 0 THEN Pi - a ELSE a)
                   : a \in { IF Abs(vy) <= Abs(vx)
                             THEN atanUnit(DivR(Abs(vy) * Scale, Abs(vx)))
                             ELSE HalfPi - atanUnit(DivR(Abs(vx) * Scale, Abs(vy))) } }
                 : TRUE
          : vy \in {y}, vx \in {x} } : TRUE

\* WGS84.a in km, and WGS84.e2 = E2Num / E2Den
WGS84a == 6378

E2Num == 669

E2Den == 100000

\* N = a / Math.sqrt(1 - e2 * sinLat * sinLat)
primeVerticalRadius(lat) ==
    CHOOSE N \in
        { DivR(WGS84a * Scale,
               ISqrt((Scale - DivR(Mul(sinLat, sinLat) * E2Num, E2Den)) * Scale))
          : sinLat \in {sin(lat)} } : TRUE

geodeticToECEF(g) ==
    LET sinLat == sin(g.lat)
        cosLat == cos(g.lat)
        sinLon == sin(g.lon)
        cosLon == cos(g.lon)
        N == primeVerticalRadius(g.lat)
    IN [x |-> Mul(Mul(N + g.height, cosLat), cosLon),
        y |-> Mul(Mul(N + g.height, cosLat), sinLon),
        z |-> Mul(DivR(N * (E2Den - E2Num), E2Den) + g.height, sinLat)]

\* ecefToGeodetic up to its loop: the locals as the loop finds them
loopEntry(p) ==
    LET pxy == ISqrt(p.x * p.x + p.y * p.y)
    IN [z |-> p.z,
        lon |-> atan2(p.y, p.x),
        pxy |-> pxy,
        lat |-> atan2(p.z, DivR(pxy * (E2Den - E2Num), E2Den)),
        prevLat |-> 0,
        N |-> 0,
        height |-> 0]

\* the tolerance 1e-12 of the loop condition.  In doubles it lies some
\* thousand roundings above the rounding of a latitude; here it lies just
\* above the rounding of the fixed-point steps (2 units), in angle units.
LoopTol == 4

\* the loop condition Math.abs(lat - prevLat) > 1e-12
loopCondition(l) == Abs(l.lat - l.prevLat) > LoopTol

\* one run of the loop body
loopBody(l) ==
    CHOOSE after \in
        { [l EXCEPT !.prevLat = l.lat,
                    !.N = N,
                    !.height = height,
                    !.lat = atan2(l.z,
                               Mul(l.pxy,
                                   Scale - DivR(DivR(N * E2Num, E2Den \div Scale),
                                                N + height)))]
          : N \in {primeVerticalRadius(l.lat)},
            height \in {DivR(l.pxy * Scale, cosDivisor(l.lat))
                            - primeVerticalRadius(l.lat)} } : TRUE

\* the return statement of ecefToGeodetic
loopReturn(l) == [lat |-> l.lat, lon |-> l.lon, height |-> l.height]

\* ecefToGeodetic(p), for a p on which the loop ends
RECURSIVE runLoop(_)
runLoop(l) ==
    CHOOSE out \in { IF loopCondition(v) THEN runLoop(loopBody(v))
                     ELSE loopReturn(v) : v \in {l} } : TRUE

ecefToGeodetic(p) == runLoop(loopEntry(p))

ecefToENU(point, anchorGeodetic) ==
    LET anchorECEF == geodeticToECEF(anchorGeodetic)
        dx == point.x - anchorECEF.x
        dy == point.y - anchorECEF.y
        dz == point.z - anchorECEF.z
        sinLat == sin(anchorGeodetic.lat)
        cosLat == cos(anchorGeodetic.lat)
        sinLon == sin(anchorGeodetic.lon)
        cosLon == cos(anchorGeodetic.lon)
    IN [x |-> Mul(0 - sinLon, dx) + Mul(cosLon, dy),
        y |-> Mul(Mul(0 - sinLat, cosLon), dx)
                - Mul(Mul(sinLat, sinLon), dy)
                + Mul(cosLat, dz),
        z |-> Mul(Mul(cosLat, cosLon), dx)
                + Mul(Mul(cosLat, sinLon), dy)
                + Mul(sinLat, dz)]

\* mutant: the east component enters dx with the wrong sign
enuToECEFEastFlipped(enu, anchorGeodetic) ==
    LET anchorECEF == geodeticToECEF(anchorGeodetic)
        sinLat == sin(anchorGeodetic.lat)
        cosLat == cos(anchorGeodetic.lat)
        sinLon == sin(anchorGeodetic.lon)
        cosLon == cos(anchorGeodetic.lon)
        dx == Mul(sinLon, enu.x)
                - Mul(Mul(sinLat, cosLon), enu.y)
                + Mul(Mul(cosLat, cosLon), enu.z)
        dy == Mul(cosLon, enu.x)
                - Mul(Mul(sinLat, sinLon), enu.y)
                + Mul(Mul(cosLat, sinLon), enu.z)
        dz == Mul(cosLat, enu.y) + Mul(sinLat, enu.z)
    IN [x |-> anchorECEF.x + dx, y |-> anchorECEF.y + dy, z |-> anchorECEF.z + dz]

enuToECEF(enu, anchorGeodetic) ==
    LET anchorECEF == geodeticToECEF(anchorGeodetic)
        sinLat == sin(anchorGeodetic.lat)
        cosLat == cos(anchorGeodetic.lat)
        sinLon == sin(anchorGeodetic.lon)
        cosLon == cos(anchorGeodetic.lon)
        dx == Mul(0 - sinLon, enu.x)
                - Mul(Mul(sinLat, cosLon), enu.y)
                + Mul(Mul(cosLat, cosLon), enu.z)
        dy == Mul(cosLon, enu.x)
                - Mul(Mul(sinLat, sinLon), enu.y)
                + Mul(Mul(cosLat, sinLon), enu.z)
        dz == Mul(cosLat, enu.y) + Mul(sinLat, enu.z)
    IN [x |-> anchorECEF.x + dx, y |-> anchorECEF.y + dy, z |-> anchorECEF.z + dz]

\* FloatingOrigin.toGeodetic(local) with this.anchor = anc
toGeodetic(anc, local) == ecefToGeodetic(enuToECEF(local, anc))

\* mutant: the anchor is replaced at the threshold too
exceedsOrReaches(playerLocal, thresholdMeters) ==
    playerLocal.x * playerLocal.x + playerLocal.y * playerLocal.y
        + playerLocal.z * playerLocal.z >= thresholdMeters * thresholdMeters

\* dist > thresholdMeters in recenterIfNeeded: for integers, the correctly
\* rounded square root of s exceeds t exactly when s exceeds t * t
exceeds(playerLocal, thresholdMeters) ==
    playerLocal.x * playerLocal.x + playerLocal.y * playerLocal.y
        + playerLocal.z * playerLocal.z > thresholdMeters * thresholdMeters

----------------------------------------------------------------------------
(* Specification SpecGeo: one FloatingOrigin constructed with an anchor    *)
(* drawn from Anchors, and calls of the PlanetMath functions on inputs     *)
(* drawn from bounded sets.  ecefToGeodetic runs one loop iteration per    *)
(* step; no call begins while one is in progress.                          *)

MaxMoves == 1

Geo(lat, lon, height) == [lat |-> lat, lon |-> lon, height |-> height]

Vec(x, y, z) == [x |-> x, y |-> y, z |-> z]

Anchors == { Geo(0, 0, 0), Geo(5236, 10000, 100), Geo(0 - 12000, 0 - 25000, 0) }

Geodetics ==
    { Geo(lat, lon, height) :
        lat \in {0 - 12000, 0 - 5000, 0, 50, 5236, 12000},
        lon \in {0 - 25000, 0, 10000, 31000},
        height \in {0 - 100, 0, 1000} }

\* points near the centre of the ellipsoid, and one on the equator
EcefPoints == { Vec(10, 0, 20), Vec(3, 4, 5), Vec(20, 0, 10), Vec(7000, 0, 0) }

Locals ==
    { Vec(0, 0, 0), Vec(3, 4, 0), Vec(3, 4, 1), Vec(300, 400, 0),
      Vec(0 - 1000, 20, 60), Vec(0, 0 - 700, 0 - 5) }

Thresholds2 == {5, 500}

Void == [tag |-> "undefined"]

InitGeo ==
    /\ TileIdle /\ MgrIdle /\ StepIdle /\ KeyIdle /\ RestIdle
    /\ anchor \in Anchors
    /\ call = Unset
    /\ ret = Unset
    /\ loop = Unset
    /\ moves = 0

\* ecefToGeodetic(p) is called and reaches its loop
CallEcefToGeodetic(p) ==
    /\ loop = Unset
    /\ call' = [name |-> "ecefToGeodetic", p |-> p, g |-> Unset]
    /\ ret' = Unset
    /\ loop' = loopEntry(p)
    /\ UNCHANGED <<anchor, moves>>
    /\ UNCHANGED <<tileVars, mgrVars, stepVars, keyVars, restVars>>

\* ecefToGeodetic(geodeticToECEF(g)) is called and reaches the loop
CallGeodeticRoundTrip(g) ==
    /\ loop = Unset
    /\ \E p \in {geodeticToECEF(g)} :
          /\ call' = [name |-> "ecefToGeodetic", p |-> p, g |-> g]
          /\ loop' = loopEntry(p)
    /\ ret' = Unset
    /\ UNCHANGED <<anchor, moves>>
    /\ UNCHANGED <<tileVars, mgrVars, stepVars, keyVars, restVars>>

\* the loop condition holds: the body runs once
Iterate ==
    /\ loop # Unset
    /\ loopCondition(loop)
    /\ loop' = loopBody(loop)
    /\ UNCHANGED <<anchor, call, ret, moves>>
    /\ UNCHANGED <<tileVars, mgrVars, stepVars, keyVars, restVars>>

\* the loop condition fails: ecefToGeodetic returns; inside
\* recenterIfNeeded the value goes to setAnchor
Return ==
    /\ loop # Unset
    /\ ~loopCondition(loop)
    /\ loop' = Unset
    /\ IF call.name = "recenterIfNeeded"
       THEN /\ anchor' = loopReturn(loop)
            /\ moves' = moves + 1
            /\ ret' = Void
       ELSE /\ ret' = loopReturn(loop)
            /\ UNCHANGED <<anchor, moves>>
    /\ UNCHANGED call
    /\ UNCHANGED <<tileVars, mgrVars, stepVars, keyVars, restVars>>

\* ecefToENU(enuToECEF(local, anchorGeodetic), anchorGeodetic)
CallEnuRoundTrip(local, anchorGeodetic) ==
    /\ loop = Unset
    /\ call' = [name |-> "ecefToENU", local |-> local,
                anchorGeodetic |-> anchorGeodetic]
    /\ ret' = ecefToENU(enuToECEF(local, anchorGeodetic), anchorGeodetic)
    /\ UNCHANGED <<anchor, loop, moves>>
    /\ UNCHANGED <<tileVars, mgrVars, stepVars, keyVars, restVars>>

\* recenterIfNeeded(playerLocal, thresholdMeters): it returns at once, or
\* enters toGeodetic and reaches the loop of ecefToGeodetic
CallRecenterIfNeeded(playerLocal, thresholdMeters) ==
    /\ loop = Unset
    /\ moves < MaxMoves
    /\ call' = [name |-> "recenterIfNeeded", playerLocal |-> playerLocal,
                thresholdMeters |-> thresholdMeters, before |-> anchor]
    /\ IF exceeds(playerLocal, thresholdMeters)
       THEN /\ loop' = loopEntry(enuToECEF(playerLocal, anchor))
            /\ ret' = Unset
       ELSE /\ ret' = Void
            /\ UNCHANGED loop
    /\ UNCHANGED <<anchor, moves>>
    /\ UNCHANGED <<tileVars, mgrVars, stepVars, keyVars, restVars>>

NextGeo ==
    \/ \E p \in EcefPoints : CallEcefToGeodetic(p)
    \/ \E g \in Geodetics : CallGeodeticRoundTrip(g)
    \/ Iterate
    \/ Return
    \/ \E local \in Locals, a \in Anchors : CallEnuRoundTrip(local, a)
    \/ \E playerLocal \in Locals, th \in Thresholds2 :
          CallRecenterIfNeeded(playerLocal, th)

SpecGeo == InitGeo /\ [][NextGeo]_vars

\* the loop of ecefToGeodetic is not left waiting: an iteration or a return
\* that can happen does happen
SpecGeoFair == SpecGeo /\ WF_vars(Iterate) /\ WF_vars(Return)

----------------------------------------------------------------------------
(* Claims on PlanetMath (specifications SpecGeo and SpecGeoFair)           *)

\* the stand-ins of "within 1e-9 radians" and "within 1e-6 m": the rounding
\* of the fixed-point arithmetic over a round trip
AngleTol == Scale \div 2000

LengthTol == Scale \div 1000

\* C12: recenterIfNeeded(p, th) replaces the anchor with toGeodetic(p),
\* evaluated against the anchor held before the call, exactly when the
\* norm of p is strictly greater than th; when the norm is <= th the
\* anchor is left unchanged.
C12_Recenter ==
    (call # Unset /\ call.name = "recenterIfNeeded" /\ ret # Unset) =>
        LET p == call.playerLocal
            th == call.thresholdMeters
        IN IF p.x * p.x + p.y * p.y + p.z * p.z > th * th
           THEN anchor = toGeodetic(call.before, p)
           ELSE anchor = call.before

C12_Witness ==
    /\ call # Unset /\ call.name = "recenterIfNeeded" /\ ret # Unset
    /\ call.playerLocal = Vec(3, 4, 1)
    /\ call.thresholdMeters = 5
    /\ moves = 1
    /\ anchor # call.before
    /\ anchor = toGeodetic(call.before, call.playerLocal)

\* C13: for every Geodetic g with |lat| < pi/2 - eps (latitude 0 included),
\* ecefToGeodetic(geodeticToECEF(g)) equals g within the tolerance in lat,
\* lon and height.
C13_GeodeticRoundTrip ==
    (/\ call # Unset /\ call.name = "ecefToGeodetic" /\ call.g # Unset
     /\ ret # Unset
     /\ Abs(call.g.lat) < HalfPi - AngleTol)
        => /\ Abs(ret.lat - call.g.lat) <= AngleTol
           /\ Abs(Wrap(ret.lon - call.g.lon)) <= AngleTol
           /\ Abs(ret.height - call.g.height) <= LengthTol

\* C14: for every Vec3 local and every Geodetic anchor,
\* ecefToENU(enuToECEF(local, anchor), anchor) equals local within the
\* tolerance.
C14_EnuRoundTrip ==
    (call # Unset /\ call.name = "ecefToENU" /\ ret # Unset) =>
        /\ Abs(ret.x - call.local.x) <= LengthTol
        /\ Abs(ret.y - call.local.y) <= LengthTol
        /\ Abs(ret.z - call.local.z) <= LengthTol

C14_Witness ==
    /\ call # Unset /\ call.name = "ecefToENU" /\ ret # Unset
    /\ call.local = Vec(0 - 1000, 20, 60)
    /\ call.anchorGeodetic = Geo(5236, 10000, 100)
    /\ enuToECEF(call.local, call.anchorGeodetic)
          # geodeticToECEF(call.anchorGeodetic)

\* C15: every call of ecefToGeodetic ends: it returns a value or reports
\* an error after a capped number of iterations.
C15_Terminates == (loop # Unset) ~> (loop = Unset)

----------------------------------------------------------------------------
(* Claims on the active set (specification Spec), continued                *)

\* C28: in the `active` set returned by any update, no tile is a proper
\* ancestor of another active tile.
C28_Antichain ==
    Updated =>
        \A a \in result.active, d \in result.active : ~IsAncestor(a, d)

C28_Witness ==
    /\ Updated
    /\ \E a \in result.active, d \in result.active :
          /\ a.face = d.face
          /\ a.level = 1
          /\ d.level = 2
          /\ ~IsAncestor(a, d)

\* the TileIdentity invariant
ValidTile(t) ==
    /\ t.tag = "tile"
    /\ t.face \in 0..(NumFaces - 1)
    /\ t.level >= 0
    /\ ~IsNegative(t.x) /\ ~IsNegative(t.y)
    /\ InRange(t)

\* tiles that satisfy the invariant, on which getParent and getChildren
\* are called
InvariantTiles ==
    {t \in KeyTiles : t.tag = "tile" /\ InRange(t)}
    \cup { TileKey(NumFaces - 1, 2, FromInt(3), FromInt(3)),
           TileKey(0, MaxTileLevel, Pow2Num(IntBits - 1), Zero),
           TileKey(0, MaxTileLevel, PlusOne(Pow2Num(IntBits)), Zero) }

PiTimesRadius(cfg) == (Circumference * cfg.planetRadius) \div (2 * PlanetRadius)

\* C26: the geometric error used for a tile at level L equals
\* pi * planetRadius / 2^(L+1) for the configured planetRadius; for every
\* level L with 0 <= L <= maxLevel it is positive and
\* geometricError(L+1) = geometricError(L) / 2.
C26_GeometricError ==
    \A L \in 0..config.maxLevel :
        LET ge == computeGeometricError(L)
            next == computeGeometricError(L + 1)
        IN /\ ge.num * 2^(L + 1) = PiTimesRadius(config) * ge.den
           /\ ge.num > 0 /\ ge.den > 0
           /\ next.num * ge.den * 2 = ge.num * next.den

----------------------------------------------------------------------------
(* Specification SpecRender: PlanetRenderer.render as the consumer of the  *)
(* delta: it calls update, frees the atlas layers of the removed tiles and *)
(* allocates layers for the added ones.                                    *)

Render(camera) ==
    /\ CallUpdate(camera)
    /\ consumer' = (consumer \ result'.removed) \cup result'.added
    /\ UNCHANGED <<pureVars, ctlVars, fetchVars>>

NextRender == \E camera \in Cameras : Render(camera)

SpecRender == Init /\ [][NextRender]_vars

\* C29: a consumer that starts from the empty set at manager construction
\* and, after each update, removes `removed` and then inserts `added`,
\* holds exactly the manager's current `active` set after every update.
C29_DeltaComplete == Updated => consumer = result.active

----------------------------------------------------------------------------
(* TileKey.mortonCode and the two horizon tests, as pure functions         *)

\* the bit positions of a 32-bit pattern
Bits32 == 0..(IntBits - 1)

\* u << k on a 32-bit pattern
Shl(u, k) == {b + k : b \in u} \cap Bits32

\* the masks 0x00ff00ff, 0x0f0f0f0f, 0x33333333, 0x55555555: `width` bits
\* set out of every `period`
Mask(period, width) == {b \in Bits32 : b % period < width}

\* one argument of interleaveBits after its five masking steps
spreadBits(v) ==
    LET v0 == ToUint32(v) \cap (0..15)
        v1 == (v0 \cup Shl(v0, 8)) \cap Mask(16, 8)
        v2 == (v1 \cup Shl(v1, 4)) \cap Mask(8, 4)
        v3 == (v2 \cup Shl(v2, 2)) \cap Mask(4, 2)
        v4 == (v3 \cup Shl(v3, 1)) \cap Mask(2, 1)
    IN v4

\* x | (y << 1) is a signed 32-bit value
interleaveBits(x, y) ==
    FromInt32Bits(spreadBits(x) \cup Shl(spreadBits(y), 1))

mortonCode(t) == interleaveBits(t.x, t.y)

length(v) == ISqrt(v.x * v.x + v.y * v.y + v.z * v.z)

dot(a, b) == a.x * b.x + a.y * b.y + a.z * b.z

\* v / len, with components in units of 1/Scale
divideScalar(v, len) ==
    Vec(DivR(v.x * Scale, len), DivR(v.y * Scale, len), DivR(v.z * Scale, len))

\* Vector3.normalize: divideScalar(this.length() || 1)
normalize(v) == divideScalar(v, IF length(v) = 0 THEN 1 ELSE length(v))

clamp(v, lo, hi) == IF v < lo THEN lo ELSE IF v > hi THEN hi ELSE v

\* Math.acos of a cosine in units of 1/Scale
acos(c) == atan2(ISqrt(Scale * Scale - c * c), c)

\* TileBounds.isTileBelowHorizon; a zero-length vector normalises to NaN
\* components, and NaN < horizonCos is false
isTileBelowHorizon(cameraPos, tileCenter, planetRadius) ==
    LET camLen == length(cameraPos)
        tileLen == length(tileCenter)
    IN IF camLen = 0 \/ tileLen = 0 THEN FALSE
       ELSE LET camNorm == divideScalar(cameraPos, camLen)
                tileNorm == divideScalar(tileCenter, tileLen)
                dotN == DivR(dot(camNorm, tileNorm), Scale)
                horizonCos == DivR(planetRadius * Scale, camLen)
            IN dotN < horizonCos

\* SphericalMath.isBelowHorizon
isBelowHorizon(cameraAbsPos, boundingSphere, planetRadius) ==
    LET distToCamera == length(cameraAbsPos)
    IN IF distToCamera <= planetRadius THEN FALSE
       ELSE LET cameraNorm == normalize(cameraAbsPos)
                tileNorm == normalize(boundingSphere.center)
                angleToTile ==
                    acos(clamp(DivR(dot(cameraNorm, tileNorm), Scale),
                               0 - Scale, Scale))
                angleToHorizon == acos(DivR(planetRadius * Scale, distToCamera))
                tileAngularRadius ==
                    DivR(boundingSphere.radius * Scale, planetRadius)
            IN angleToTile - tileAngularRadius > angleToHorizon

----------------------------------------------------------------------------
(* Specification SpecPure: calls of the pure functions on drawn inputs     *)

MortonLevel == IntBits \div 2 + 1

MortonCoords ==
    { FromInt(i) : i \in {0, 1, 2, 3, 5, 255, 256, 32767, 32768, 65535,
                          65536 + 1} }

\* camera positions in km: the centre, below, on and above the surface
HorizonCameras ==
    { Vec(0, 0, 0), Vec(6000, 0, 0), Vec(WGS84a, 0, 0), Vec(WGS84a + 1, 0, 0),
      Vec(7000, 0, 0), Vec(0, 0, 20000), Vec(3000, 4000, 0),
      Vec(4000, 5000, 3000) }

HorizonCenters ==
    { Vec(WGS84a, 0, 0), Vec(0, WGS84a, 0), Vec(0 - WGS84a, 0, 0),
      Vec(0, 0, WGS84a), Vec(4510, 4510, 0), Vec(0, 0, 0) }

HorizonRadii == {10, 1000}

InitPure ==
    /\ TileIdle
    /\ StepIdle
    /\ KeyIdle
    /\ GeoIdle
    /\ RestIdle
    /\ MgrIdle

CallMortonCode(x, y) ==
    /\ pureCall' = [tag |-> "mortonCode",
                    tile |-> TileKey(0, MortonLevel, x, y)]
    /\ pureRet' = [tag |-> "number",
                   value |-> mortonCode(TileKey(0, MortonLevel, x, y))]
    /\ UNCHANGED <<mgrVars, tileVars, stepVars, keyVars, geoVars>>
    /\ UNCHANGED <<consumer, ctlVars, fetchVars>>

CallIsTileBelowHorizon(cameraPos, tileCenter) ==
    \E r \in {isTileBelowHorizon(cameraPos, tileCenter, WGS84a)} :
       /\ pureCall' = [tag |-> "isTileBelowHorizon", cameraPos |-> cameraPos,
                       center |-> tileCenter, planetRadius |-> WGS84a]
       /\ pureRet' = [tag |-> "boolean", value |-> r]
       /\ UNCHANGED <<mgrVars, tileVars, stepVars, keyVars, geoVars>>
       /\ UNCHANGED <<consumer, ctlVars, fetchVars>>

CallIsBelowHorizon(cameraPos, sphere) ==
    \E r \in {isBelowHorizon(cameraPos, sphere, WGS84a)} :
       /\ pureCall' = [tag |-> "isBelowHorizon", cameraPos |-> cameraPos,
                       center |-> sphere.center, radius |-> sphere.radius,
                       planetRadius |-> WGS84a]
       /\ pureRet' = [tag |-> "boolean", value |-> r]
       /\ UNCHANGED <<mgrVars, tileVars, stepVars, keyVars, geoVars>>
       /\ UNCHANGED <<consumer, ctlVars, fetchVars>>

NextPure ==
    \/ \E x \in MortonCoords, y \in MortonCoords : CallMortonCode(x, y)
    \/ \E c \in HorizonCameras, t \in HorizonCenters :
          CallIsTileBelowHorizon(c, t)
    \/ \E c \in HorizonCameras, t \in HorizonCenters, r \in HorizonRadii :
          CallIsBelowHorizon(c, [center |-> t, radius |-> r])

SpecPure == InitPure /\ [][NextPure]_vars

\* C22: for every tile with 0 <= x < 2^16 and 0 <= y < 2^16, mortonCode()
\* returns the non-negative integer whose bit 2i is bit i of x and whose
\* bit 2i+1 is bit i of y for i = 0..15; distinct (x, y) pairs in that range
\* get distinct codes.
C22_MortonCode ==
    (/\ pureCall.tag = "mortonCode"
     /\ LessThanPow2(pureCall.tile.x, 16)
     /\ LessThanPow2(pureCall.tile.y, 16))
    => /\ ~pureRet.value.neg
       /\ pureRet.value.mag =
             {2 * i : i \in pureCall.tile.x.mag}
                \cup {2 * i + 1 : i \in pureCall.tile.y.mag}

\* C25: the horizon test returns false (tile not culled) for every tile
\* whenever the norm of the camera position is <= planetRadius.
C25_NotCulledBelowSurface ==
    (/\ pureCall.tag \in {"isTileBelowHorizon", "isBelowHorizon"}
     /\ dot(pureCall.cameraPos, pureCall.cameraPos)
           <= pureCall.planetRadius * pureCall.planetRadius)
    => pureRet.value = FALSE

----------------------------------------------------------------------------
(* FloatingOriginController over a FloatingOrigin, and the references to   *)
(* Geodetic objects: this.anchor, this.player.geodetic and one object held *)
(* by a caller.  `aliased` holds the pairs of references that point to the *)
(* same object; a write through one reference is seen through the others.  *)

Refs == {"anchor", "player", "held"}

\* the references that point to the object r points to
pointsTo(r, al) == {r} \cup {q \in Refs : {r, q} \in al}

\* mutant: r = s, so that r points to the object of s
assignShared(r, s, al) ==
    {pr \in al : r \notin pr}
        \cup {{r, q} : q \in pointsTo(s, {pr \in al : r \notin pr}) \ {r}}

\* r = { ...s }: r points to a new object, which no other reference shares
assignCopy(r, s, al) == {pr \in al : r \notin pr}

\* FloatingOrigin.toLocal
toLocal(anc, g) == ecefToENU(geodeticToECEF(g), anc)

plus(g, d) == Geo(g.lat + d.lat, g.lon + d.lon, g.height + d.height)

\* the name of the call before this one
previous == IF call = Unset THEN "constructor" ELSE call.name

----------------------------------------------------------------------------
(* Specification SpecCtl: a FloatingOriginController after construction    *)
(* and setRecenterThreshold, and at most MaxCalls calls on it and on its   *)
(* FloatingOrigin.  Lengths are in km; the default threshold of 2 km lies  *)
(* within the rounding of the arithmetic here, so the thresholds are       *)
(* larger.                                                                 *)

MaxCalls == 3

InitialGeodetics == { Geo(0, 0, 0), Geo(5236, 10000, 0) }

PlayerGeodetics == { Geo(0 - 5000, 31000, 50), Geo(5236, 10000, 300) }

Deltas ==
    { Geo(100, 0, 0), Geo(0, 0 - 100, 0), Geo(0, 0, 100), Geo(0 - 30, 20, 0) }

HeldDeltas == { Geo(0, 300, 0), Geo(0, 0, 0 - 20) }

CtlThresholds == {50, 200}

CtlLocals == { Vec(3, 4, 0), Vec(0 - 1000, 20, 60) }

InitCtl ==
    /\ TileIdle /\ MgrIdle /\ StepIdle /\ KeyIdle
    /\ consumer = {} /\ pureCall = Unset /\ pureRet = Unset
    /\ downloads = << >> /\ activeRequests = 0 /\ abortControllers = 0
    /\ imageCache = FALSE /\ failedRequests = FALSE /\ fetched = Unset
    /\ player \in InitialGeodetics
    /\ anchor = player
    /\ aliased = assignCopy("anchor", "player", {})
    /\ recenterThreshold \in CtlThresholds
    /\ held = Unset
    /\ calls = 0
    /\ call = Unset /\ ret = Unset /\ loop = Unset /\ moves = 0

\* what every action of this specification leaves alone
CtlFrame ==
    /\ calls < MaxCalls
    /\ calls' = calls + 1
    /\ UNCHANGED <<loop, moves>>
    /\ UNCHANGED <<tileVars, mgrVars, stepVars, keyVars, consumer, pureVars,
                   fetchVars>>

\* a write of value g through reference r
Write(r, g) ==
    /\ anchor' = IF "anchor" \in pointsTo(r, aliased) THEN g ELSE anchor
    /\ player' = IF "player" \in pointsTo(r, aliased) THEN g ELSE player
    /\ held' = IF "held" \in pointsTo(r, aliased) THEN g ELSE held

MovePlayerGeodetic(d) ==
    /\ CtlFrame
    /\ Write("player", plus(player, d))
    /\ call' = [name |-> "movePlayerGeodetic", before |-> anchor,
                prev |-> previous]
    /\ ret' = Void
    /\ UNCHANGED <<recenterThreshold, aliased>>

SetPlayerGeodetic(g) ==
    /\ CtlFrame
    /\ player' = g
    /\ aliased' = assignCopy("player", "g", aliased)
    /\ call' = [name |-> "setPlayerGeodetic", before |-> anchor,
                prev |-> previous]
    /\ ret' = Void
    /\ UNCHANGED <<anchor, held, recenterThreshold>>

SetRecenterThreshold(meters) ==
    /\ CtlFrame
    /\ recenterThreshold' = meters
    /\ call' = [name |-> "setRecenterThreshold", before |-> anchor,
                prev |-> previous]
    /\ ret' = Void
    /\ UNCHANGED <<anchor, player, held, aliased>>

\* update: getPlayerLocalPosition, then recenterIfNeeded and, inside it,
\* toGeodetic and setAnchor
UpdateController ==
    \E local \in {toLocal(anchor, player)} :
       /\ CtlFrame
       /\ IF exceeds(local, recenterThreshold)
          THEN /\ anchor' = toGeodetic(anchor, local)
               /\ aliased' = assignCopy("anchor", "newGeodetic", aliased)
          ELSE UNCHANGED <<anchor, aliased>>
       /\ call' = [name |-> "update", before |-> anchor, prev |-> previous,
                   local |-> local, threshold |-> recenterThreshold]
       /\ ret' = Void
       /\ UNCHANGED <<player, held, recenterThreshold>>

ForceRecenterToPlayer ==
    /\ CtlFrame
    /\ anchor' = player
    /\ aliased' = assignCopy("anchor", "player", aliased)
    /\ call' = [name |-> "forceRecenterToPlayer", before |-> anchor,
                prev |-> previous]
    /\ ret' = Void
    /\ UNCHANGED <<player, held, recenterThreshold>>

\* getAnchor, the caller keeping the object it returns
GetAnchor ==
    /\ CtlFrame
    /\ held' = anchor
    /\ aliased' = assignCopy("held", "anchor", aliased)
    /\ call' = [name |-> "getAnchor", before |-> anchor, prev |-> previous]
    /\ ret' = anchor
    /\ UNCHANGED <<anchor, player, recenterThreshold>>

\* FloatingOrigin.setAnchor with the object the caller holds
SetAnchor ==
    /\ held # Unset
    /\ CtlFrame
    /\ anchor' = held
    /\ aliased' = assignCopy("anchor", "held", aliased)
    /\ call' = [name |-> "setAnchor", before |-> anchor, prev |-> previous]
    /\ ret' = Void
    /\ UNCHANGED <<player, held, recenterThreshold>>

\* the caller changes the fields of the object it holds
MutateHeld(d) ==
    /\ held # Unset
    /\ CtlFrame
    /\ Write("held", plus(held, d))
    /\ call' = [name |-> "mutate", before |-> anchor, prev |-> previous]
    /\ ret' = Void
    /\ UNCHANGED <<recenterThreshold, aliased>>

\* worldToLocal(g), that is FloatingOrigin.toLocal(g)
WorldToLocal(g) ==
    /\ CtlFrame
    /\ call' = [name |-> "toLocal", before |-> anchor, prev |-> previous]
    /\ ret' = toLocal(anchor, g)
    /\ UNCHANGED <<anchor, player, held, recenterThreshold, aliased>>

LocalToGeodetic(local) ==
    /\ CtlFrame
    /\ call' = [name |-> "toGeodetic", before |-> anchor, prev |-> previous]
    /\ ret' = toGeodetic(anchor, local)
    /\ UNCHANGED <<anchor, player, held, recenterThreshold, aliased>>

NextCtl ==
    \/ \E d \in Deltas : MovePlayerGeodetic(d)
    \/ \E g \in PlayerGeodetics : SetPlayerGeodetic(g)
    \/ \E meters \in CtlThresholds : SetRecenterThreshold(meters)
    \/ UpdateController
    \/ ForceRecenterToPlayer
    \/ GetAnchor
    \/ SetAnchor
    \/ \E d \in HeldDeltas : MutateHeld(d)
    \/ \E g \in PlayerGeodetics : WorldToLocal(g)
    \/ \E local \in CtlLocals : LocalToGeodetic(local)

SpecCtl == InitCtl /\ [][NextCtl]_vars

\* C23: the anchor changes only through setAnchor (forceRecenterToPlayer
\* calls it) and through recenterIfNeeded when the norm exceeds the
\* threshold: toLocal, toGeodetic and getAnchor leave it unchanged, and so
\* does mutating an object returned by getAnchor or one passed to the
\* constructor or to setAnchor.
C23_AnchorFrame ==
    (call # Unset /\ anchor # call.before) =>
        \/ call.name \in {"setAnchor", "forceRecenterToPlayer"}
        \/ call.name = "update" /\ exceeds(call.local, call.threshold)

C23_Witness ==
    /\ call # Unset
    /\ call.name = "movePlayerGeodetic"
    /\ call.prev = "forceRecenterToPlayer"
    /\ anchor = call.before
    /\ player # anchor

\* C24: immediately after update() returns, getPlayerLocalPosition() has
\* magnitude <= recenterThreshold.
C24_LocalBounded ==
    (call # Unset /\ call.name = "update") =>
        ~exceeds(toLocal(anchor, player), recenterThreshold)

----------------------------------------------------------------------------
(* Specification SpecTerm: update one processTile call per step, in the    *)
(* order the recursion makes the calls.  Here `pending` is the sequence of *)
(* calls still to run, the next one first.  One camera has a NaN position  *)
(* and NaN frustum planes, the other an infinite screenHeight.             *)

\* a camera built from a NaN position: every coordinate and every plane
\* coefficient is NaN.  The numbers in their place are never read: the
\* marks nonFinite and finite decide every comparison they enter.
NaNCamera ==
    [positionECEF |-> [x |-> 0, y |-> 0, z |-> 0],
     screenHeight |-> 1080,
     nonFinite |-> "position",
     frustum |-> [i \in 1..NumPlanes |->
                    [a |-> 0, b |-> 0, c |-> 0, d |-> 0, finite |-> FALSE]]]

\* the camera with screenHeight = Infinity
InfiniteHeight(camera) == [camera EXCEPT !.nonFinite = "screenHeight"]

TermCameras ==
    { NaNCamera, InfiniteHeight(LookDown(700, 0, 600, 1000, 20000, 1080)) }

TermConfigs ==
    [planetRadius : {PlanetRadius}, maxLevel : 0..MaxLevelBound,
     minLevel : {0, MaxLevelBound + 1}, sseThreshold : {8}]

InitTerm ==
    /\ TileIdle
    /\ KeyIdle
    /\ GeoIdle
    /\ RestIdle
    /\ traversing = Unset
    /\ building = EmptyMap
    /\ pending = << >>
    /\ reordered = FALSE
    /\ config \in TermConfigs
    /\ activeTiles = constructorTiles
    /\ result = Unset
    /\ lastCamera = Unset
    /\ prevCamera = Unset
    /\ prevTiles = constructorTiles
    /\ prevActive = {}

\* update, lines 52-56: a new Map, and the loop over the root faces
BeginTraversal(camera) ==
    /\ traversing = Unset
    /\ traversing' = camera
    /\ building' = EmptyMap
    /\ pending' = [i \in 1..NumFaces |-> rootFaces[i]]
    /\ UNCHANGED <<reordered, tileVars, mgrVars, keyVars, geoVars, restVars>>

\* the next processTile call runs; the calls it makes on its visible
\* children come before the calls that were waiting
RunProcessTile ==
    /\ traversing # Unset
    /\ pending # << >>
    /\ \E tile \in {Head(pending)} :
       \E v \in {visitTile(config, tile, traversing, building)} :
          /\ building' = v.nextTiles
          /\ pending' =
                SelectSeq(getChildren(tile).items, LAMBDA c : c \in v.calls)
                    \o Tail(pending)
    /\ UNCHANGED <<traversing, reordered, tileVars, mgrVars, keyVars, geoVars,
                   restVars>>

\* update, lines 58-77, once every processTile call has returned
FinishTraversal ==
    /\ traversing # Unset
    /\ pending = << >>
    /\ \E r \in {diffAndStore(activeTiles, building)} :
          /\ result' = [tag |-> "result", active |-> r.active,
                        added |-> r.added, removed |-> r.removed]
          /\ activeTiles' = r.activeTiles
    /\ prevTiles' = activeTiles
    /\ prevActive' = IF result = Unset THEN {} ELSE result.active
    /\ prevCamera' = lastCamera
    /\ lastCamera' = traversing
    /\ traversing' = Unset
    /\ building' = EmptyMap
    /\ UNCHANGED <<config, pending, reordered, tileVars, keyVars, geoVars,
                   restVars>>

NextTerm ==
    \/ \E camera \in TermCameras : BeginTraversal(camera)
    \/ RunProcessTile
    \/ FinishTraversal

SpecTerm == InitTerm /\ [][NextTerm]_vars

\* update is synchronous: a call that can run, and a return that can
\* happen, do happen
SpecTermFair ==
    SpecTerm /\ WF_vars(RunProcessTile) /\ WF_vars(FinishTraversal)

\* C27: for every camera state (a non-finite position or screen-space error
\* included) and every config with finite maxLevel >= 0, update terminates
\* and returns a result without throwing, and its recursion never goes
\* deeper than maxLevel levels below a root face.
C27_Terminates ==
    /\ [](\A i \in 1..Len(pending) : pending[i].level <= config.maxLevel)
    /\ (traversing # Unset)
          ~> (traversing = Unset /\ result # Unset /\ result.tag = "result")

C27_Witness ==
    /\ traversing = Unset
    /\ Updated
    /\ lastCamera.nonFinite = "screenHeight"
    /\ prevCamera # Unset /\ prevCamera.nonFinite = "position"
    /\ config.maxLevel = MaxLevelBound
    /\ \E t \in result.active : t.level = config.maxLevel

----------------------------------------------------------------------------
(* Specification SpecFetch: one TileFetcher and the calls for one cache    *)
(* key.  fetchTile runs to its `await promise` in one step, and its        *)
(* continuation (lines 61-80) in another, once the download has settled.   *)
(* A settled promise's continuation is a microtask: it runs before any     *)
(* other call or completion.                                               *)

MaxFetches == 3

\* no continuation of fetchTile is waiting to run
NoMicrotask == \A d \in 1..Len(downloads) : downloads[d].phase # "settled"

\* the downloads that are running and have not been aborted
InFlight ==
    {d \in 1..Len(downloads) :
        downloads[d].phase = "downloading" /\ ~downloads[d].aborted}

InitFetch ==
    /\ TileIdle /\ MgrIdle /\ StepIdle /\ KeyIdle /\ GeoIdle /\ RestIdle

FetchFrame ==
    UNCHANGED <<tileVars, mgrVars, stepVars, keyVars, geoVars, consumer,
                pureVars, ctlVars>>

\* fetchTile, lines 25-59
FetchTile ==
    /\ NoMicrotask
    /\ IF failedRequests
       THEN /\ fetched' = [name |-> "fetchTile", returns |-> "fallback"]
            /\ UNCHANGED <<downloads, activeRequests, abortControllers>>
       ELSE IF imageCache
       THEN /\ fetched' = [name |-> "fetchTile", returns |-> "cached"]
            /\ UNCHANGED <<downloads, activeRequests, abortControllers>>
       ELSE IF activeRequests # 0
       THEN /\ fetched' = [name |-> "fetchTile", returns |-> "reused"]
            /\ UNCHANGED <<downloads, activeRequests, abortControllers>>
       ELSE /\ Len(downloads) < MaxFetches
            /\ downloads' = Append(downloads,
                                [phase |-> "downloading", aborted |-> FALSE,
                                 result |-> "pending"])
            /\ abortControllers' = Len(downloads) + 1
            /\ activeRequests' = Len(downloads) + 1
            /\ fetched' = [name |-> "fetchTile", returns |-> "started"]
    /\ UNCHANGED <<imageCache, failedRequests>>
    /\ FetchFrame

\* cancelTile, lines 83-90
CancelTile ==
    /\ NoMicrotask
    /\ IF abortControllers # 0
       THEN /\ downloads' = [downloads EXCEPT ![abortControllers].aborted = TRUE]
            /\ abortControllers' = 0
            /\ activeRequests' = 0
            /\ fetched' = [name |-> "cancelTile", returns |-> "aborted"]
       ELSE /\ fetched' = [name |-> "cancelTile", returns |-> "nothing"]
            /\ UNCHANGED <<downloads, activeRequests, abortControllers>>
    /\ UNCHANGED <<imageCache, failedRequests>>
    /\ FetchFrame

\* downloadImage, line 93: the 5 s timer aborts the download
TimeoutAbort(d) ==
    /\ NoMicrotask
    /\ downloads[d].phase = "downloading"
    /\ ~downloads[d].aborted
    /\ downloads' = [downloads EXCEPT ![d].aborted = TRUE]
    /\ UNCHANGED <<activeRequests, abortControllers, imageCache, failedRequests,
                   fetched>>
    /\ FetchFrame

\* the download ends and the promise of line 48 settles: with the bitmap,
\* with null after an abort, or, after another error, with the fallback
\* (the catch callback adds the key to failedRequests)
SettleDownload(d, outcome) ==
    /\ NoMicrotask
    /\ downloads[d].phase = "downloading"
    /\ \E r \in {IF downloads[d].aborted THEN "null"
                 ELSE IF outcome = "error" THEN "fallback" ELSE "bitmap"} :
          /\ downloads' = [downloads EXCEPT ![d].phase = "settled",
                                            ![d].result = r]
          /\ failedRequests' = (failedRequests \/ r = "fallback")
    /\ UNCHANGED <<activeRequests, abortControllers, imageCache, fetched>>
    /\ FetchFrame

\* fetchTile, lines 61-80, of the call that started download d
ResumeFetch(d) ==
    /\ downloads[d].phase = "settled"
    /\ downloads' = [downloads EXCEPT ![d].phase = "returned"]
    /\ activeRequests' = 0
    /\ abortControllers' = 0
    /\ imageCache' = (imageCache \/ downloads[d].result = "bitmap")
    /\ UNCHANGED <<failedRequests, fetched>>
    /\ FetchFrame

NextFetch ==
    \/ FetchTile
    \/ CancelTile
    \/ \E d \in 1..Len(downloads) : TimeoutAbort(d)
    \/ \E d \in 1..Len(downloads), outcome \in {"ok", "error"} :
          SettleDownload(d, outcome)
    \/ \E d \in 1..Len(downloads) : ResumeFetch(d)

SpecFetch == InitFetch /\ [][NextFetch]_vars

\* C30: the continuation of an earlier fetchTile call never removes the
\* activeRequests/abortControllers entries of a later fetchTile call for the
\* key; so while a download for a key is in flight there is exactly one
\* entry for it: a concurrent fetchTile reuses it and cancelTile aborts it.
C30_OneEntryPerDownload ==
    \A d \in InFlight : activeRequests = d /\ abortControllers = d

====
